---- MODULE Spec2Model ----
(***************************************************************************)
(* Client-side session and conversation orchestration of the Legal         *)
(* ChatBot front end (frontend/src/App.js): authentication lifecycle,      *)
(* conversation registry, chat turns, document upload, voice               *)
(* transcription and the text-to-speech playback controller.               *)
(*                                                                         *)
(* React state is modelled at event granularity: a user event runs its     *)
(* handler against the state of the latest render; the continuation of an  *)
(* async handler runs later, against the values its closure captured when  *)
(* the handler was called.  Every backend call is a request record in      *)
(* reqs: issued by a handler, answered by the backend, delivered to the    *)
(* continuation.                                                           *)
(***************************************************************************)
EXTENDS Integers, Sequences, FiniteSets, TLC

\* ------------------------------------------------------------- bounds
MaxConv == 2        \* conversation ids the backend can hand out
MaxInFlight == 2    \* backend requests in flight at once
MaxMsgs == 4        \* user events that append are taken below this length
MaxUtt == 3         \* utterances created by the speech controller

None == 0
ConvIds == 1..MaxConv

VARIABLES
    \* localStorage
    stored,                 \* token and user are present
    \* authentication state (App.js 56-59)
    isAuthenticated, user, showAuthModal, isCheckingAuth,
    \* chat state (App.js 62-68)
    messages, input, isLoading, selectedImage, imagePreview,
    isSpeaking, speakingMessageId,
    \* conversation state (App.js 71-74)
    conversations, currentConversationId, isLoadingConversations,
    \* requests in flight, in the order they were issued
    reqs,
    \* the backend: existing conversations, ids handed out so far
    srvConvs, srvUsed,
    \* the speech synthesis capability: utterance being spoken, utterances
    \* created, the message each was created for, cancelled utterances whose
    \* completion signal is still to be delivered
    synthCur, uttGen, uttIdx, endPending,
    \* history: the last operation and what it saw
    lastOp

authVars == <<stored, isAuthenticated, user, showAuthModal, isCheckingAuth>>
chatVars == <<messages, input, isLoading, selectedImage, imagePreview>>
convVars == <<conversations, currentConversationId, isLoadingConversations>>
srvVars == <<srvConvs, srvUsed>>
speechVars == <<isSpeaking, speakingMessageId, synthCur, uttGen, uttIdx, endPending>>
vars == <<authVars, chatVars, convVars, reqs, srvVars, speechVars, lastOp>>

\* ------------------------------------------------------------- text
\* Text is a sequence of tokens; " " is a blank.
Blank == " "

RECURSIVE TrimLeft(_)
TrimLeft(s) == IF s # <<>> /\ Head(s) = Blank THEN TrimLeft(Tail(s)) ELSE s

RECURSIVE TrimRight(_)
TrimRight(s) ==
    IF s # <<>> /\ s[Len(s)] = Blank THEN TrimRight(SubSeq(s, 1, Len(s) - 1)) ELSE s

\* String.prototype.trim
Trim(s) == TrimRight(TrimLeft(s))

\* what the user can type into the input field
Inputs == {<<>>, <<Blank>>, <<"a">>}
\* the text of a related-question button
Suggestion == <<"related?">>
Answer == <<"answer">>
GenericError == <<"Sorry, something went wrong.">>
ServerError == <<"server error text">>
UploadFailed == <<"File upload failed.">>
UploadOk == <<"document processed">>
Uploading == <<"Uploading", "contract.pdf", "...">>
Transcription == <<"spoken">>

\* ------------------------------------------------------------- messages
Msg(role, content, rq) == [role |-> role, content |-> content, rq |-> rq]

\* GET /conversations/{id}: the stored history of a conversation, as the
\* backend returns it ({role, content} pairs)
History(id) == << [role |-> "user", content |-> <<"old question", id>>],
                  [role |-> "assistant", content |-> <<"old answer", id>>] >>

\* ------------------------------------------------------------- requests
NoReq == [k |-> "none", st |-> "sent", id |-> None, cap |-> None, img |-> None,
          q |-> <<>>, snap |-> {}, rid |-> None, flag |-> FALSE, rq |-> FALSE,
          cont |-> "none", cred |-> None]

\* the credentials a user can enter in the AuthModal
Creds == {1, 2}

RemoveAt(s, i) == SubSeq(s, 1, i - 1) \o SubSeq(s, i + 1, Len(s))

\* kinds sent through the api instance (with the 401 interceptor)
ApiKinds == {"verify", "logout", "list", "create", "select", "delete",
             "chat", "upload", "transcribe"}
\* kinds sent with plain axios
PlainKinds == {"login", "register"}

CanIssue == Len(reqs) < MaxInFlight

\* a chat turn is in flight from its submit until its finally block ran:
\* its chat request, or the registry refresh its continuation awaits
IsTurn(r) == r.k = "chat" \/ (r.k = "list" /\ r.cont = "turn")
TurnsInFlight == Cardinality({i \in 1..Len(reqs) : IsTurn(reqs[i])})

\* lastOp: the operation, the kind and outcome of the request it handled, and
\* what it saw (id, cap, n, b: see each action); alert: it called alert()
Op(name) == [op |-> name, k |-> "", st |-> "", id |-> None, cap |-> None, n |-> 0,
             b |-> FALSE, alert |-> FALSE]

\* the operation that handled the response of request r
Done(name, r) == [Op(name) EXCEPT !.k = r.k, !.st = r.st]

\* ------------------------------------------------------------- page load
\* useState initial values (App.js 56-74) followed by the mount effect
\* checkAuth (App.js 80-83, 102-129): with no stored session the modal is
\* shown at once, with one the verification request is issued.
PageLoad(st) ==
    /\ stored' = st
    /\ isAuthenticated' = FALSE
    /\ user' = None
    /\ showAuthModal' = ~st
    /\ isCheckingAuth' = st
    /\ messages' = <<>>
    /\ input' = <<>>
    /\ isLoading' = FALSE
    /\ selectedImage' = None
    /\ imagePreview' = None
    /\ isSpeaking' = FALSE
    /\ speakingMessageId' = None
    /\ conversations' = {}
    /\ currentConversationId' = None
    /\ isLoadingConversations' = TRUE
    /\ reqs' = IF st THEN <<[NoReq EXCEPT !.k = "verify"]>> ELSE <<>>

Init ==
    /\ stored \in BOOLEAN
    /\ isAuthenticated = FALSE
    /\ user = None
    /\ showAuthModal = ~stored
    /\ isCheckingAuth = stored
    /\ messages = <<>>
    /\ input = <<>>
    /\ isLoading = FALSE
    /\ selectedImage = None
    /\ imagePreview = None
    /\ isSpeaking = FALSE
    /\ speakingMessageId = None
    /\ conversations = {}
    /\ currentConversationId = None
    /\ isLoadingConversations = TRUE
    /\ reqs = IF stored THEN <<[NoReq EXCEPT !.k = "verify"]>> ELSE <<>>
    /\ srvConvs \in {{}, {1}}
    /\ srvUsed = Cardinality(srvConvs)
    /\ synthCur = None
    /\ uttGen = 0
    /\ uttIdx = [g \in 1..MaxUtt |-> None]
    /\ endPending = {}
    /\ lastOp = Op("load")

\* The response interceptor on a 401 (App.js 29-39): the stored session is
\* removed and the page reloaded.  The reload discards the page's memory and
\* the continuations of its requests; the new page mounts with no session.
Reload(r) ==
    /\ PageLoad(FALSE)
    /\ synthCur' = None
    /\ endPending' = {}
    /\ UNCHANGED <<uttGen, uttIdx, srvVars>>
    \* cap, n: the active id and the length of the list before
    /\ lastOp' = [Done("reload", r) EXCEPT
                     !.k = IF r.k = "chat" /\ r.img # None THEN "chat_vision" ELSE r.k,
                     !.cap = currentConversationId, !.n = Len(messages)]

\* the main view is rendered (App.js 382-401)
MainView == ~isCheckingAuth /\ isAuthenticated
\* the AuthModal is rendered (App.js 391-399)
AuthView == ~isCheckingAuth /\ ~isAuthenticated

\* loadConversations (App.js 182-186): the request it issues
ListReq(cont) == [NoReq EXCEPT !.k = "list", !.cont = cont]

\* ------------------------------------------------------------- backend
FreshId == srvUsed + 1

\* The backend answers request i successfully (spec section 6).
ServerOk(i) ==
    /\ i \in 1..Len(reqs)
    /\ reqs[i].st = "sent"
    /\ LET r == reqs[i] IN
       CASE r.k = "verify" ->
              /\ \E valid \in BOOLEAN :
                    reqs' = [reqs EXCEPT ![i].st = "ok", ![i].flag = valid]
              /\ UNCHANGED srvVars
         [] r.k = "list" ->
              /\ reqs' = [reqs EXCEPT ![i].st = "ok", ![i].snap = srvConvs]
              /\ UNCHANGED srvVars
         [] r.k = "create" ->
              /\ FreshId <= MaxConv
              /\ reqs' = [reqs EXCEPT ![i].st = "ok", ![i].rid = FreshId]
              /\ srvConvs' = srvConvs \cup {FreshId}
              /\ srvUsed' = FreshId
         [] r.k = "select" ->
              /\ r.id \in srvConvs
              /\ reqs' = [reqs EXCEPT ![i].st = "ok"]
              /\ UNCHANGED srvVars
         [] r.k = "delete" ->
              /\ r.id \in srvConvs
              /\ reqs' = [reqs EXCEPT ![i].st = "ok"]
              /\ srvConvs' = srvConvs \ {r.id}
              /\ UNCHANGED srvUsed
         [] r.k = "chat" /\ r.id = None ->
              /\ FreshId <= MaxConv
              /\ \E rq \in BOOLEAN :
                    reqs' = [reqs EXCEPT ![i].st = "ok", ![i].rid = FreshId,
                                         ![i].rq = rq]
              /\ srvConvs' = srvConvs \cup {FreshId}
              /\ srvUsed' = FreshId
         [] r.k = "chat" /\ r.id # None ->
              /\ r.id \in srvConvs
              /\ \E rq \in BOOLEAN :
                    reqs' = [reqs EXCEPT ![i].st = "ok", ![i].rid = r.id,
                                         ![i].rq = rq]
              /\ UNCHANGED srvVars
         [] OTHER ->
              /\ reqs' = [reqs EXCEPT ![i].st = "ok"]
              /\ UNCHANGED srvVars
    /\ UNCHANGED <<authVars, chatVars, convVars, speechVars, lastOp>>

\* The backend answers request i with an error, with or without an error text
\* in the body (error.response?.data?.error).
ServerErr(i) ==
    /\ i \in 1..Len(reqs)
    /\ reqs[i].st = "sent"
    /\ \E text \in BOOLEAN :
          reqs' = [reqs EXCEPT ![i].st = "err", ![i].flag = text]
    /\ UNCHANGED <<authVars, chatVars, convVars, srvVars, speechVars, lastOp>>

\* The backend rejects the credential of request i (HTTP 401).
ServerUnauth(i) ==
    /\ i \in 1..Len(reqs)
    /\ reqs[i].st = "sent"
    /\ reqs' = [reqs EXCEPT ![i].st = "unauth"]
    /\ UNCHANGED <<authVars, chatVars, convVars, srvVars, speechVars, lastOp>>

\* an interceptor that never sees a 401
InterceptedNever(r) == FALSE

\* The condition of the response interceptor (App.js 29-32): installed on the
\* api instance, it acts on a 401.
Intercepted(r) == r.k \in ApiKinds /\ r.st = "unauth"

\* Request i is ready for its continuation: answered, or lost on the network
\* (a rejection without a response).
Failed(r) == r.st # "ok"
ErrText(r) == r.st = "err" /\ r.flag

\* ------------------------------------------------------------- AuthGate
\* An api request answered 401 (App.js 29-39)
DeliverUnauth(i) ==
    /\ i \in 1..Len(reqs)
    /\ Intercepted(reqs[i])
    /\ Reload(reqs[i])

\* a verification that takes any answer for a valid session
VerifyValidAnyAnswer(r) == r.st = "ok"

\* the test of checkAuth on the answer (App.js 113-114)
VerifyValid(r) == r.st = "ok" /\ r.flag

\* checkAuth after the verification request (App.js 112-128)
VerifyDone(i) ==
    /\ i \in 1..Len(reqs)
    /\ reqs[i].k = "verify"
    /\ ~Intercepted(reqs[i])
    /\ LET r == reqs[i]
           valid == VerifyValid(r)
       IN /\ isCheckingAuth' = FALSE
          /\ IF valid
               THEN /\ isAuthenticated' = TRUE
                    /\ user' = 1
                    /\ UNCHANGED <<stored, showAuthModal>>
                    \* useEffect on isAuthenticated (App.js 86-90)
                    /\ reqs' = [reqs EXCEPT ![i] = ListReq("none")]
                    /\ isLoadingConversations' = TRUE
               ELSE /\ stored' = FALSE
                    /\ showAuthModal' = TRUE
                    /\ UNCHANGED <<isAuthenticated, user, isLoadingConversations>>
                    /\ reqs' = RemoveAt(reqs, i)
          \* b: the answer said valid
          /\ lastOp' = [Done("verifyDone", r) EXCEPT !.b = (r.st = "ok" /\ r.flag)]
    /\ UNCHANGED <<chatVars, conversations, currentConversationId, srvVars, speechVars>>

\* handleLogin (App.js 131-133), called from the AuthModal
Login ==
    /\ AuthView
    /\ CanIssue
    /\ \E c \in Creds : reqs' = Append(reqs, [NoReq EXCEPT !.k = "login", !.cred = c])
    /\ lastOp' = Op("login")
    /\ UNCHANGED <<authVars, chatVars, convVars, srvVars, speechVars>>

\* handleLogin after the login request (App.js 134-149)
LoginDone(i) ==
    /\ i \in 1..Len(reqs)
    /\ reqs[i].k = "login"
    /\ IF reqs[i].st = "ok"
         THEN /\ stored' = TRUE
              /\ isAuthenticated' = TRUE
              /\ user' = 1
              /\ showAuthModal' = FALSE
              /\ UNCHANGED isCheckingAuth
              \* useEffect on isAuthenticated (App.js 86-90)
              /\ reqs' = IF isAuthenticated THEN RemoveAt(reqs, i)
                         ELSE [reqs EXCEPT ![i] = ListReq("none")]
              /\ isLoadingConversations' = (~isAuthenticated \/ isLoadingConversations)
         ELSE /\ UNCHANGED <<authVars, isLoadingConversations>>
              /\ reqs' = RemoveAt(reqs, i)
    \* n: the credentials; cap: 1 when handleRegister issued the login
    /\ lastOp' = [Done("loginDone", reqs[i]) EXCEPT
                     !.b = (reqs[i].st = "ok"), !.n = reqs[i].cred,
                     !.cap = IF reqs[i].cont = "register" THEN 1 ELSE 0]
    /\ UNCHANGED <<chatVars, conversations, currentConversationId, srvVars, speechVars>>

\* handleRegister (App.js 152-154), called from the AuthModal
Register ==
    /\ AuthView
    /\ CanIssue
    /\ \E c \in Creds : reqs' = Append(reqs, [NoReq EXCEPT !.k = "register", !.cred = c])
    /\ lastOp' = Op("register")
    /\ UNCHANGED <<authVars, chatVars, convVars, srvVars, speechVars>>

\* a registration that goes on to the login whatever its outcome
LoginAttemptedAlways(r) == TRUE

\* handleRegister reaches its call of handleLogin (App.js 154-156): the await
\* of the registration request did not throw
LoginAttempted(r) == r.st = "ok"

\* the login request handleRegister issues (App.js 156); its result is
\* returned to the caller of handleRegister
AutoLogin(r) == [NoReq EXCEPT !.k = "login", !.cred = r.cred, !.cont = "register"]

\* handleRegister after the registration request (App.js 155-162)
RegisterDone(i) ==
    /\ i \in 1..Len(reqs)
    /\ reqs[i].k = "register"
    /\ reqs' = IF LoginAttempted(reqs[i])
                 THEN [reqs EXCEPT ![i] = AutoLogin(reqs[i])]
                 ELSE RemoveAt(reqs, i)
    \* n: the credentials
    /\ lastOp' = [Done("registerDone", reqs[i]) EXCEPT !.b = (reqs[i].st = "ok"),
                                                       !.n = reqs[i].cred]
    /\ UNCHANGED <<authVars, chatVars, convVars, srvVars, speechVars>>

\* handleLogout (App.js 165-167), called from the sidebar
Logout ==
    /\ MainView
    /\ CanIssue
    /\ reqs' = Append(reqs, [NoReq EXCEPT !.k = "logout"])
    /\ lastOp' = Op("logout")
    /\ UNCHANGED <<authVars, chatVars, convVars, srvVars, speechVars>>

\* a cleanup that runs only when the logout request succeeded
LogoutCleanupOnSuccess(r) ==
    /\ IF r.st = "ok"
         THEN /\ stored' = FALSE
              /\ isAuthenticated' = FALSE
              /\ user' = None
              /\ messages' = <<>>
              /\ conversations' = {}
              /\ currentConversationId' = None
              /\ showAuthModal' = TRUE
         ELSE UNCHANGED <<stored, isAuthenticated, user, messages, conversations,
                          currentConversationId, showAuthModal>>
    /\ lastOp' = [Done("logoutDone", r) EXCEPT !.cap = currentConversationId,
                                               !.n = Len(messages)]

\* the finally block of handleLogout (App.js 168-179): the failure of the
\* request is logged to the console, the state is cleared whatever the outcome
LogoutCleanup(r) ==
    /\ stored' = FALSE
    /\ isAuthenticated' = FALSE
    /\ user' = None
    /\ messages' = <<>>
    /\ conversations' = {}
    /\ currentConversationId' = None
    /\ showAuthModal' = TRUE
    \* cap, n: the active id and the length of the list before
    /\ lastOp' = [Done("logoutDone", r) EXCEPT !.cap = currentConversationId,
                                               !.n = Len(messages)]

\* handleLogout after the logout request (App.js 167-180)
LogoutDone(i) ==
    /\ i \in 1..Len(reqs)
    /\ reqs[i].k = "logout"
    /\ ~Intercepted(reqs[i])
    /\ LogoutCleanup(reqs[i])
    /\ reqs' = RemoveAt(reqs, i)
    /\ UNCHANGED <<isCheckingAuth, input, isLoading, selectedImage, imagePreview,
                   isLoadingConversations, srvVars, speechVars>>

\* ------------------------------------------------------------- ConversationRegistry
\* the registry after loadConversations got its answer (App.js 185-189)
Refreshed(r) == IF r.st = "ok" THEN r.snap ELSE conversations

\* loadConversations after its request (App.js 186-191), when no handler
\* awaits it any further (the effect, createNewConversation, deleteConversation)
ListDone(i) ==
    /\ i \in 1..Len(reqs)
    /\ reqs[i].k = "list"
    /\ reqs[i].cont = "none"
    /\ ~Intercepted(reqs[i])
    /\ conversations' = Refreshed(reqs[i])
    /\ isLoadingConversations' = FALSE
    /\ reqs' = RemoveAt(reqs, i)
    /\ lastOp' = [Done("listDone", reqs[i]) EXCEPT !.b = (reqs[i].st = "ok")]
    /\ UNCHANGED <<authVars, chatVars, currentConversationId, srvVars, speechVars>>

\* the sidebar shows the item of conversation id (Sidebar, App.js 664-680)
ShowsConversation(id) == ~isLoadingConversations /\ id \in conversations

\* loadConversation (App.js 194-197), called from a sidebar item
Select(id) ==
    /\ MainView
    /\ CanIssue
    /\ ShowsConversation(id)
    /\ isLoading' = TRUE
    /\ reqs' = Append(reqs, [NoReq EXCEPT !.k = "select", !.id = id])
    /\ lastOp' = [Op("select") EXCEPT !.id = id]
    /\ UNCHANGED <<authVars, messages, input, selectedImage, imagePreview,
                   convVars, srvVars, speechVars>>

\* a history merged into the list shown
MergedHistory(h) ==
    messages \o [j \in 1..Len(h) |-> Msg(h[j].role, h[j].content, FALSE)]

\* the history as loadConversation maps it (App.js 198-202)
MapHistory(h) ==
    [j \in 1..Len(h) |-> Msg(h[j].role, h[j].content, FALSE)]

\* loadConversation after its request (App.js 198-211)
SelectDone(i) ==
    /\ i \in 1..Len(reqs)
    /\ reqs[i].k = "select"
    /\ ~Intercepted(reqs[i])
    /\ IF reqs[i].st = "ok"
         THEN /\ messages' = MapHistory(History(reqs[i].id))
              /\ currentConversationId' = reqs[i].id
         ELSE UNCHANGED <<messages, currentConversationId>>
    /\ isLoading' = FALSE
    /\ reqs' = RemoveAt(reqs, i)
    /\ lastOp' = [Done("selectDone", reqs[i]) EXCEPT !.id = reqs[i].id,
                                                     !.b = (reqs[i].st = "ok"),
                                                     !.alert = (reqs[i].st # "ok")]
    /\ UNCHANGED <<authVars, input, selectedImage, imagePreview, conversations,
                   isLoadingConversations, srvVars, speechVars>>

\* createNewConversation (App.js 214-216), called from the header or the sidebar
Create ==
    /\ MainView
    /\ CanIssue
    /\ reqs' = Append(reqs, [NoReq EXCEPT !.k = "create"])
    /\ lastOp' = Op("create")
    /\ UNCHANGED <<authVars, chatVars, convVars, srvVars, speechVars>>

\* a creation whose failure leaves the active id alone
CreatedOrKept(r) == IF r.st = "ok" THEN r.rid ELSE currentConversationId

\* the active id createNewConversation sets (App.js 217-218, 224)
Created(r) == IF r.st = "ok" THEN r.rid ELSE None

\* createNewConversation after its request (App.js 217-227)
CreateDone(i) ==
    /\ i \in 1..Len(reqs)
    /\ reqs[i].k = "create"
    /\ ~Intercepted(reqs[i])
    /\ messages' = <<>>
    /\ IF reqs[i].st = "ok"
         THEN /\ currentConversationId' = Created(reqs[i])
              /\ reqs' = [reqs EXCEPT ![i] = ListReq("none")]
              /\ isLoadingConversations' = TRUE
         ELSE /\ currentConversationId' = Created(reqs[i])
              /\ reqs' = RemoveAt(reqs, i)
              /\ UNCHANGED isLoadingConversations
    \* cap, n: the active id and the length of the list before
    /\ lastOp' = [Done("createDone", reqs[i]) EXCEPT !.id = reqs[i].rid,
                                                     !.cap = currentConversationId,
                                                     !.n = Len(messages),
                                                     !.b = (reqs[i].st = "ok")]
    /\ UNCHANGED <<authVars, input, isLoading, selectedImage, imagePreview,
                   conversations, srvVars, speechVars>>

\* deleteConversation (App.js 230-234), confirmed, called from a sidebar item;
\* the closure holds the active id of the render the click came from
Delete(id) ==
    /\ MainView
    /\ CanIssue
    /\ ShowsConversation(id)
    /\ reqs' = Append(reqs, [NoReq EXCEPT !.k = "delete", !.id = id,
                                          !.cap = currentConversationId])
    /\ lastOp' = [Op("delete") EXCEPT !.id = id]
    /\ UNCHANGED <<authVars, chatVars, convVars, srvVars, speechVars>>

\* the comparison of App.js 236
DeletedIsActive(r) == r.id = r.cap

\* deleteConversation after its request (App.js 236-245)
DeleteDone(i) ==
    /\ i \in 1..Len(reqs)
    /\ reqs[i].k = "delete"
    /\ ~Intercepted(reqs[i])
    /\ IF reqs[i].st = "ok"
         THEN /\ IF DeletedIsActive(reqs[i])
                   THEN /\ messages' = <<>>
                        /\ currentConversationId' = None
                   ELSE UNCHANGED <<messages, currentConversationId>>
              /\ reqs' = [reqs EXCEPT ![i] = ListReq("none")]
              /\ isLoadingConversations' = TRUE
         ELSE /\ UNCHANGED <<messages, currentConversationId, isLoadingConversations>>
              /\ reqs' = RemoveAt(reqs, i)
    \* id: the deleted id; cap: the active id when the response arrived
    /\ lastOp' = [Done("deleteDone", reqs[i]) EXCEPT !.id = reqs[i].id,
                                                     !.cap = currentConversationId,
                                                     !.b = (reqs[i].st = "ok"),
                                                     !.alert = (reqs[i].st # "ok")]
    /\ UNCHANGED <<authVars, input, isLoading, selectedImage, imagePreview,
                   conversations, srvVars, speechVars>>

\* ------------------------------------------------------------- TurnOrchestrator
Images == {1, 2}

\* the input field's onChange (App.js 488)
TypeInput(v) ==
    /\ MainView
    /\ v \in Inputs
    /\ v # input
    /\ input' = v
    /\ lastOp' = Op("ui")
    /\ UNCHANGED <<authVars, messages, isLoading, selectedImage, imagePreview,
                   convVars, reqs, srvVars, speechVars>>

\* handleFileChange with an image file (App.js 331-337)
StageImage(f) ==
    /\ MainView
    /\ f \in Images
    /\ f # selectedImage
    /\ selectedImage' = f
    /\ imagePreview' = f
    /\ lastOp' = Op("ui")
    /\ UNCHANGED <<authVars, messages, input, isLoading, convVars, reqs, srvVars,
                   speechVars>>

\* the discard button of the image preview (App.js 479-484)
DiscardImage ==
    /\ MainView
    /\ imagePreview # None
    /\ selectedImage' = None
    /\ imagePreview' = None
    /\ lastOp' = Op("ui")
    /\ UNCHANGED <<authVars, messages, input, isLoading, convVars, reqs, srvVars,
                   speechVars>>

\* message m shows related-question buttons (App.js 466-472)
ShowsSuggestions(m) ==
    /\ m \in 1..Len(messages)
    /\ messages[m].role = "assistant"
    /\ messages[m].rq

\* the update of the message list in handleSendMessage (App.js 268-283);
\* m is the message whose button was clicked, 0 for a typed query
ClearSuggestions(msgs, m) ==
    LET last == Len(msgs) IN
    IF m # 0 /\ last >= 1 /\ msgs[last].role = "assistant"
      THEN [msgs EXCEPT ![last].rq = FALSE]
      ELSE msgs

\* the guard of handleSendMessage (App.js 266)
SubmitAccepted(query) == ~((query = <<>> /\ selectedImage = None) \/ isLoading)

\* a handler that always calls the text endpoint
EndpointText(img) == "chat"

\* the endpoint handleSendMessage calls (App.js 290-305)
Endpoint(img) == IF img # None THEN "chat_vision" ELSE "chat"

\* handleSendMessage up to its request (App.js 264-306): m = 0 is the send
\* button or the Enter key, m > 0 a related-question button of message m
Submit(m) ==
    /\ MainView
    /\ CanIssue
    /\ Len(messages) < MaxMsgs
    /\ m = 0 \/ ShowsSuggestions(m)
    /\ LET query == IF m # 0 THEN Suggestion ELSE Trim(input) IN
       /\ SubmitAccepted(query)
       /\ messages' = Append(ClearSuggestions(messages, m), Msg("user", query, FALSE))
       /\ reqs' = Append(reqs, [NoReq EXCEPT !.k = "chat", !.q = query,
                                             !.id = currentConversationId,
                                             !.img = selectedImage])
    /\ input' = <<>>
    /\ isLoading' = TRUE
    \* n: the message the suggestion came from; id: the active id sent;
    \* k: the endpoint
    /\ lastOp' = [Op("submit") EXCEPT !.n = m, !.id = currentConversationId,
                                      !.k = Endpoint(selectedImage)]
    /\ UNCHANGED <<authVars, selectedImage, imagePreview, convVars, srvVars, speechVars>>

\* the assistant message of a successful turn (App.js 315-319)
AssistantMessage(r) == Msg("assistant", Answer, r.rq)

\* an error message that ignores the text of the server
ErrorMessageGeneric(r) == Msg("assistant", GenericError, FALSE)

\* the assistant message of a failed turn (App.js 324-325)
ErrorMessage(r) == Msg("assistant", IF ErrText(r) THEN ServerError ELSE GenericError, FALSE)

\* the test of App.js 310, on the active id the closure captured
Adopts(r) == r.id = None /\ r.rid # None

\* the append of the response to the list (App.js 320)
AppendResponse(msgs, r) == Append(msgs, AssistantMessage(r))

\* a handler that resets the flag on its success path only
TurnResetOnSuccess(r) == isLoading' = (isLoading /\ r.st # "ok")

\* the finally block of handleSendMessage (App.js 326-328)
TurnFinally(r) == isLoading' = FALSE

\* handleSendMessage after its chat request (App.js 297-328)
ChatDone(i) ==
    /\ i \in 1..Len(reqs)
    /\ reqs[i].k = "chat"
    /\ ~Intercepted(reqs[i])
    /\ LET r == reqs[i] IN
       IF r.st = "ok"
         THEN /\ IF r.img # None
                   THEN selectedImage' = None /\ imagePreview' = None
                   ELSE UNCHANGED <<selectedImage, imagePreview>>
              /\ IF Adopts(r)
                   THEN /\ currentConversationId' = r.rid
                        /\ reqs' = [reqs EXCEPT ![i] =
                                      [ListReq("turn") EXCEPT !.id = r.id, !.rid = r.rid,
                                                              !.rq = r.rq, !.img = r.img]]
                        /\ isLoadingConversations' = TRUE
                        /\ UNCHANGED <<messages, isLoading>>
                        /\ lastOp' = [Done("adopt", r) EXCEPT !.id = r.rid]
                   ELSE /\ messages' = AppendResponse(messages, r)
                        /\ TurnFinally(r)
                        /\ reqs' = RemoveAt(reqs, i)
                        /\ UNCHANGED <<currentConversationId, isLoadingConversations>>
                        \* id: the conversation of the turn; cap: the
                        \* active id its closure captured
                        /\ lastOp' = [Done("turnEnd", r) EXCEPT !.id = r.rid, !.cap = r.id,
                                                                !.b = TRUE]
         ELSE /\ messages' = Append(messages, ErrorMessage(r))
              /\ TurnFinally(r)
              /\ reqs' = RemoveAt(reqs, i)
              /\ UNCHANGED <<selectedImage, imagePreview, currentConversationId,
                             isLoadingConversations>>
              \* n: the image the request carried
              /\ lastOp' = [Done("turnEnd", r) EXCEPT !.id = r.id, !.cap = r.id,
                                                      !.n = r.img]
    /\ UNCHANGED <<authVars, input, conversations, srvVars, speechVars>>

\* handleSendMessage after the refresh it awaits (App.js 312-328);
\* loadConversations catches its own failure
TurnListDone(i) ==
    /\ i \in 1..Len(reqs)
    /\ reqs[i].k = "list"
    /\ reqs[i].cont = "turn"
    /\ ~Intercepted(reqs[i])
    /\ LET r == reqs[i] IN
       /\ conversations' = Refreshed(r)
       /\ isLoadingConversations' = FALSE
       /\ messages' = AppendResponse(messages, r)
       /\ lastOp' = [Done("turnEnd", r) EXCEPT !.id = r.rid, !.cap = r.id, !.b = TRUE]
       /\ TurnFinally([r EXCEPT !.st = "ok"])
    /\ reqs' = RemoveAt(reqs, i)
    /\ UNCHANGED <<authVars, input, selectedImage, imagePreview, currentConversationId,
                   srvVars, speechVars>>

\* handleFileChange with a document, handleDocumentUpload up to its request
\* (App.js 338-349)
Upload ==
    /\ MainView
    /\ CanIssue
    /\ Len(messages) < MaxMsgs
    /\ messages' = Append(messages, Msg("system", Uploading, FALSE))
    /\ reqs' = Append(reqs, [NoReq EXCEPT !.k = "upload"])
    /\ lastOp' = Op("upload")
    /\ UNCHANGED <<authVars, input, isLoading, selectedImage, imagePreview, convVars,
                   srvVars, speechVars>>

\* an upload that reports its success only
UploadResultOnSuccess(r) ==
    IF r.st = "ok" THEN <<Msg("system", UploadOk, FALSE)>> ELSE <<>>

\* what handleDocumentUpload appends after its request (App.js 350-353)
UploadResult(r) ==
    << Msg("system",
           IF r.st = "ok" THEN UploadOk
           ELSE IF ErrText(r) THEN ServerError ELSE UploadFailed,
           FALSE) >>

\* handleDocumentUpload after its request (App.js 350-354)
UploadDone(i) ==
    /\ i \in 1..Len(reqs)
    /\ reqs[i].k = "upload"
    /\ ~Intercepted(reqs[i])
    /\ messages' = messages \o UploadResult(reqs[i])
    /\ reqs' = RemoveAt(reqs, i)
    /\ lastOp' = [Done("uploadDone", reqs[i]) EXCEPT !.b = (reqs[i].st = "ok")]
    /\ UNCHANGED <<authVars, input, isLoading, selectedImage, imagePreview, convVars,
                   srvVars, speechVars>>

\* a recording completed: the effect on audioBlob, handleTranscription up to
\* its request (App.js 98-100, 357-361)
Transcribe ==
    /\ MainView
    /\ CanIssue
    /\ Len(input) <= 1
    /\ reqs' = Append(reqs, [NoReq EXCEPT !.k = "transcribe"])
    /\ lastOp' = Op("transcribe")
    /\ UNCHANGED <<authVars, chatVars, convVars, srvVars, speechVars>>

\* a transcription that replaces the input
TranscribedReplacing(prev) == Transcription

\* the updater of the input field in handleTranscription (App.js 362)
Transcribed(prev) == (IF prev # <<>> THEN prev \o <<Blank>> ELSE <<>>) \o Transcription

\* handleTranscription after its request (App.js 362-366)
TranscribeDone(i) ==
    /\ i \in 1..Len(reqs)
    /\ reqs[i].k = "transcribe"
    /\ ~Intercepted(reqs[i])
    /\ input' = IF reqs[i].st = "ok" THEN Transcribed(input) ELSE input
    /\ reqs' = RemoveAt(reqs, i)
    /\ lastOp' = [Done("transcribeDone", reqs[i]) EXCEPT !.b = (reqs[i].st = "ok"),
                                                         !.alert = (reqs[i].st # "ok")]
    /\ UNCHANGED <<authVars, messages, isLoading, selectedImage, imagePreview, convVars,
                   srvVars, speechVars>>

\* ------------------------------------------------------------- SpeechController
\* message m shows the read-aloud button (App.js 460-464)
ShowsSpeech(m) == m \in 1..Len(messages) /\ messages[m].role = "assistant"

\* synth.cancel(): an utterance being spoken stops at once; the platform then
\* signals its end (Chrome: an end event) or does not (an error event only).
\* The set holds the utterances whose onend is still to be called.
CancelSignals ==
    IF synthCur = None THEN {endPending}
    ELSE {endPending, endPending \cup {synthCur}}

\* a branch that forgets to compare the message
StopsPlaybackOfAny(m) == isSpeaking

\* the branch of handleToggleSpeech (App.js 249)
StopsPlayback(m) == isSpeaking /\ speakingMessageId = m

\* a callback that forgets the message marked as speaking
OnEndKeepsMessage ==
    /\ isSpeaking' = FALSE
    /\ UNCHANGED speakingMessageId

\* the onend callback handleToggleSpeech installs (App.js 257-260)
OnEnd ==
    /\ isSpeaking' = FALSE
    /\ speakingMessageId' = None

\* handleToggleSpeech (App.js 248-262) with speech.speak and speech.cancel
\* (App.js 45-51), called from the read-aloud button of message m
ToggleSpeech(m) ==
    /\ MainView
    /\ ShowsSpeech(m)
    /\ IF StopsPlayback(m)
         THEN /\ isSpeaking' = FALSE
              /\ speakingMessageId' = None
              /\ synthCur' = None
              /\ UNCHANGED <<uttGen, uttIdx>>
         ELSE /\ uttGen < MaxUtt
              /\ isSpeaking' = TRUE
              /\ speakingMessageId' = m
              /\ synthCur' = uttGen + 1
              /\ uttGen' = uttGen + 1
              /\ uttIdx' = [uttIdx EXCEPT ![uttGen + 1] = m]
    /\ endPending' \in CancelSignals
    \* n: the message; b: playback was started; cap: the message of the toggle
    \* right before this one, when that one started playback; id: the utterance
    \* that was being spoken
    /\ lastOp' = [Op("toggle") EXCEPT !.n = m, !.b = ~StopsPlayback(m),
                                      !.cap = IF lastOp.op = "toggle" /\ lastOp.b
                                              THEN lastOp.n ELSE None,
                                      !.id = synthCur]
    /\ UNCHANGED <<authVars, chatVars, convVars, reqs, srvVars>>

\* the utterance being spoken completes: its onend is called
SpeechEnd ==
    /\ synthCur # None
    /\ OnEnd
    /\ synthCur' = None
    \* id: the utterance; n: the message marked as speaking before; b: stale
    /\ lastOp' = [Op("onend") EXCEPT !.id = synthCur, !.n = speakingMessageId,
                                     !.cap = None, !.b = FALSE]
    /\ UNCHANGED <<authVars, chatVars, convVars, reqs, srvVars, uttGen, uttIdx, endPending>>

\* the end signal of a cancelled utterance g is delivered: its onend is called
StaleEnd(g) ==
    /\ g \in endPending
    /\ OnEnd
    /\ endPending' = endPending \ {g}
    \* cap: the utterance being spoken when the signal arrived
    /\ lastOp' = [Op("onend") EXCEPT !.id = g, !.n = speakingMessageId,
                                     !.cap = synthCur, !.b = TRUE]
    /\ UNCHANGED <<authVars, chatVars, convVars, reqs, srvVars, synthCur, uttGen, uttIdx>>

\* ------------------------------------------------------------- specification
Backend ==
    \/ \E i \in 1..MaxInFlight : ServerOk(i)
    \/ \E i \in 1..MaxInFlight : ServerErr(i)
    \/ \E i \in 1..MaxInFlight : ServerUnauth(i)

\* what brings the page to the main view and fills the registry
SignIn ==
    \/ \E i \in 1..MaxInFlight : DeliverUnauth(i)
    \/ \E i \in 1..MaxInFlight : VerifyDone(i)
    \/ Login
    \/ \E i \in 1..MaxInFlight : LoginDone(i)
    \/ \E i \in 1..MaxInFlight : ListDone(i)

SignOut ==
    \/ Register
    \/ \E i \in 1..MaxInFlight : RegisterDone(i)
    \/ Logout
    \/ \E i \in 1..MaxInFlight : LogoutDone(i)

Selecting ==
    \/ \E id \in ConvIds : Select(id)
    \/ \E i \in 1..MaxInFlight : SelectDone(i)

Registry ==
    \/ Create
    \/ \E i \in 1..MaxInFlight : CreateDone(i)
    \/ \E id \in ConvIds : Delete(id)
    \/ \E i \in 1..MaxInFlight : DeleteDone(i)

Typing == \E v \in Inputs : TypeInput(v)

Turns ==
    \/ \E m \in 0..(MaxMsgs + MaxInFlight) : Submit(m)
    \/ \E i \in 1..MaxInFlight : ChatDone(i)
    \/ \E i \in 1..MaxInFlight : TurnListDone(i)

Attachments ==
    \/ \E f \in Images : StageImage(f)
    \/ DiscardImage

Uploads ==
    \/ Upload
    \/ \E i \in 1..MaxInFlight : UploadDone(i)

Voice ==
    \/ Transcribe
    \/ \E i \in 1..MaxInFlight : TranscribeDone(i)

Speech ==
    \/ \E m \in 1..(MaxMsgs + MaxInFlight) : ToggleSpeech(m)
    \/ SpeechEnd
    \/ \E g \in 1..MaxUtt : StaleEnd(g)

\* the whole client
Next ==
    \/ Backend \/ SignIn \/ SignOut \/ Selecting \/ Registry \/ Typing \/ Turns
    \/ Attachments \/ Uploads \/ Voice \/ Speech

Spec == Init /\ [][Next]_vars

\* the continuations of the requests
Deliveries ==
    \/ \E i \in 1..MaxInFlight : DeliverUnauth(i)
    \/ \E i \in 1..MaxInFlight : VerifyDone(i)
    \/ \E i \in 1..MaxInFlight : LoginDone(i)
    \/ \E i \in 1..MaxInFlight : RegisterDone(i)
    \/ \E i \in 1..MaxInFlight : LogoutDone(i)
    \/ \E i \in 1..MaxInFlight : ListDone(i)
    \/ \E i \in 1..MaxInFlight : SelectDone(i)
    \/ \E i \in 1..MaxInFlight : CreateDone(i)
    \/ \E i \in 1..MaxInFlight : DeleteDone(i)
    \/ \E i \in 1..MaxInFlight : ChatDone(i)
    \/ \E i \in 1..MaxInFlight : TurnListDone(i)
    \/ \E i \in 1..MaxInFlight : UploadDone(i)
    \/ \E i \in 1..MaxInFlight : TranscribeDone(i)

\* a session using every backend call, the query spoken or an image, the user
\* waiting for the answer of a request before causing the next
Idle == reqs = <<>>
NextSession ==
    \/ Backend
    \/ Deliveries
    \/ Idle /\ Login
    \/ Idle /\ Register
    \/ Idle /\ Logout
    \/ Idle /\ \E id \in ConvIds : Select(id)
    \/ Idle /\ Create
    \/ Idle /\ \E id \in ConvIds : Delete(id)
    \/ Idle /\ \E m \in 0..(MaxMsgs + MaxInFlight) : Submit(m)
    \/ Idle /\ Upload
    \/ Idle /\ Transcribe
    \/ StageImage(1)
SpecSession == Init /\ [][NextSession]_vars

\* chat turns racing with each other and with the selection of a conversation
NextTurn == Backend \/ SignIn \/ Selecting \/ Typing \/ Turns
SpecTurn == Init /\ [][NextTurn]_vars

\* chat turns on an image, racing with the selection of a conversation; every
\* request in flight is settled in the end: its response or its failure is
\* delivered to the continuation that awaits it
NextBusy == Backend \/ SignIn \/ Selecting \/ Turns \/ StageImage(1)
Settles ==
    /\ WF_vars(\E i \in 1..MaxInFlight : ChatDone(i))
    /\ WF_vars(\E i \in 1..MaxInFlight : TurnListDone(i))
    /\ WF_vars(\E i \in 1..MaxInFlight : SelectDone(i))
    /\ WF_vars(\E i \in 1..MaxInFlight : DeliverUnauth(i))
SpecBusy == Init /\ [][NextBusy]_vars /\ Settles

\* recordings transcribed while the user types
NextVoice == Backend \/ SignIn \/ Typing \/ Voice
SpecVoice == Init /\ [][NextVoice]_vars

\* signing in, registering and signing out
NextAuth == Backend \/ SignIn \/ SignOut
SpecAuth == Init /\ [][NextAuth]_vars

\* chat turns while images are staged, replaced and discarded
NextImage == Backend \/ SignIn \/ Turns \/ Attachments
SpecImage == Init /\ [][NextImage]_vars

\* chat turns and document uploads
NextSuggest == Backend \/ SignIn \/ Typing \/ Turns \/ Uploads
SpecSuggest == Init /\ [][NextSuggest]_vars

\* the conversation registry: select, create, delete and the refreshes
NextConv == Backend \/ SignIn \/ Selecting \/ Registry
SpecConv == Init /\ [][NextConv]_vars

\* signing out while document uploads, selections, creations and refreshes of
\* the registry are in flight
NextLeave ==
    \/ Backend \/ SignIn \/ Selecting \/ Uploads
    \/ Logout
    \/ \E i \in 1..MaxInFlight : LogoutDone(i)
    \/ Create
    \/ \E i \in 1..MaxInFlight : CreateDone(i)
SpecLeave == Init /\ [][NextLeave]_vars

\* reading messages aloud while conversations are selected and created
NextPlay ==
    \/ Backend \/ SignIn \/ Selecting \/ Speech
    \/ Create
    \/ \E i \in 1..MaxInFlight : CreateDone(i)
SpecPlay == Init /\ [][NextPlay]_vars

\* the playback controller on a page showing a conversation
SpeechLists ==
    { MapHistory(History(1)),
      MapHistory(History(1)) \o << Msg("user", <<"a">>, FALSE), Msg("assistant", Answer, TRUE) >> }

InitSpeech ==
    /\ stored = TRUE
    /\ isAuthenticated = TRUE
    /\ user = 1
    /\ showAuthModal = FALSE
    /\ isCheckingAuth = FALSE
    /\ messages \in SpeechLists
    /\ input = <<>>
    /\ isLoading = FALSE
    /\ selectedImage = None
    /\ imagePreview = None
    /\ isSpeaking = FALSE
    /\ speakingMessageId = None
    /\ conversations = {1}
    /\ currentConversationId = 1
    /\ isLoadingConversations = FALSE
    /\ reqs = <<>>
    /\ srvConvs = {1}
    /\ srvUsed = 1
    /\ synthCur = None
    /\ uttGen = 0
    /\ uttIdx = [g \in 1..MaxUtt |-> None]
    /\ endPending = {}
    /\ lastOp = Op("load")

SpecSpeech == InitSpeech /\ [][Speech]_vars

\* ------------------------------------------------------------- claims
\* C1: at most one chat turn is in flight at a time: a submit invoked while
\* an earlier turn's request has not completed is a no-op.
C1_SingleFlight == TurnsInFlight <= 1

\* C2: the response of a chat turn is appended only if the conversation the
\* turn was issued for is still the active conversation at completion.
C2_ResponseOfActive ==
    (lastOp.op = "turnEnd" /\ lastOp.b) => currentConversationId = lastOp.id

\* C3: the completion signal of an utterance that a newer toggle has
\* superseded does not change the playback state: with message j marked as
\* speaking and its utterance being spoken, the signal of the cancelled
\* utterance of another message leaves the state Speaking(j).
C3_StaleEndIgnored ==
    (/\ lastOp.op = "onend" /\ lastOp.b
     /\ lastOp.cap # None
     /\ lastOp.n # None
     /\ uttIdx[lastOp.id] # lastOp.n)
    => (isSpeaking /\ speakingMessageId = lastOp.n)

\* C4: a toggle of message i that starts playback, followed at once by a
\* toggle of the same i, ends in Silent with nothing being spoken; followed
\* at once by a toggle of j # i, it ends in Speaking(j), the utterance being
\* spoken is one of j and the utterance of i is spoken no more.
C4_ToggleTwice ==
    (lastOp.op = "toggle" /\ lastOp.cap # None) =>
        IF lastOp.n = lastOp.cap
          THEN ~isSpeaking /\ speakingMessageId = None /\ synthCur = None
          ELSE /\ isSpeaking /\ speakingMessageId = lastOp.n
               /\ synthCur # None /\ uttIdx[synthCur] = lastOp.n
               /\ synthCur # lastOp.id

C4_Witness ==
    /\ lastOp.op = "toggle" /\ lastOp.cap # None /\ lastOp.n # lastOp.cap
    /\ isSpeaking /\ lastOp.id # None

\* C5: when a turn is originated by a related-question button of message m,
\* relatedQuestions of m is empty in the state in which the new user message
\* has been appended.
C5_SuggestionsCleared ==
    (lastOp.op = "submit" /\ lastOp.n # 0) => ~messages[lastOp.n].rq

\* C6: once the refresh triggered by the adoption has finished, the
\* active id is not none and the registry holds a summary with the active id.
C6_RegistryHasActive ==
    (lastOp.op = "turnEnd" /\ lastOp.k = "list") =>
        (currentConversationId # None /\ currentConversationId \in conversations)

\* C7: either no conversation is active, or exactly one summary of the
\* registry has the active id.
C7_ActiveInRegistry ==
    currentConversationId = None \/ currentConversationId \in conversations

\* C8: a successful delete(id) clears the active id and the message list if
\* id is the active conversation when it completes, and leaves both unchanged
\* otherwise.
C8_DeleteFrame ==
    [][\A i \in 1..Len(reqs) :
          (/\ reqs[i].k = "delete" /\ reqs[i].st = "ok"
           /\ Len(reqs') = Len(reqs) /\ reqs'[i] = ListReq("none")
           /\ lastOp'.op = "deleteDone" /\ lastOp'.id = reqs[i].id)
          => IF reqs[i].id = currentConversationId
               THEN currentConversationId' = None /\ messages' = <<>>
               ELSE currentConversationId' = currentConversationId /\ messages' = messages
      ]_vars

\* the state logout leaves
SessionCleared ==
    /\ ~stored /\ user = None
    /\ messages = <<>> /\ conversations = {} /\ currentConversationId = None
    /\ ~isAuthenticated /\ ~isCheckingAuth /\ showAuthModal

\* C9: logout ends with the stored session removed, the message list and
\* the conversation list empty, the active id none and the state
\* Unauthenticated, whether the backend request succeeds or fails, and shows
\* no error.
C9_LogoutClears ==
    lastOp.op = "logoutDone" => (SessionCleared /\ ~lastOp.alert)

C9_Witness ==
    /\ lastOp.op = "logoutDone" /\ lastOp.st # "ok"
    /\ lastOp.n > 0 /\ lastOp.cap # None
    /\ SessionCleared

\* the authenticated calls of the backend contract
AuthenticatedCalls ==
    {"verify", "logout", "list", "create", "select", "delete", "chat", "chat_vision",
     "upload", "transcribe"}

\* C10: an authenticated call answered with an authentication failure
\* resets the page as logout does; login and register are exempt.
C10_RejectionResets ==
    /\ (lastOp.st = "unauth" /\ lastOp.k \in AuthenticatedCalls) =>
          (lastOp.op = "reload" /\ SessionCleared)
    /\ (lastOp.st = "unauth" /\ lastOp.k \in {"login", "register"}) =>
          lastOp.op # "reload"

C10_Witness ==
    /\ lastOp.op = "reload" /\ lastOp.k = "chat"
    /\ lastOp.n > 0 /\ lastOp.cap # None
    /\ SessionCleared
\* the verification requests in flight
VerifiesInFlight == Cardinality({i \in 1..Len(reqs) : reqs[i].k = "verify"})

\* C11: a page loaded with no stored session is Unauthenticated at once and
\* issues no verification request; with a stored session exactly one
\* verification request is in flight while the check is pending, and none
\* is ever issued later; a valid answer yields Authenticated with the stored
\* user, every other outcome Unauthenticated with the stored session removed.
C11_StartupVerification ==
    /\ VerifiesInFlight = (IF isCheckingAuth THEN 1 ELSE 0)
    /\ (lastOp.op = "load" /\ ~stored) =>
          (~isAuthenticated /\ ~isCheckingAuth /\ showAuthModal /\ reqs = <<>>)
    /\ (lastOp.op = "load" /\ stored) => (isCheckingAuth /\ ~isAuthenticated)
    /\ (lastOp.op = "verifyDone" /\ lastOp.b) =>
          (isAuthenticated /\ user = 1 /\ stored /\ ~isCheckingAuth)
    /\ (lastOp.op = "verifyDone" /\ ~lastOp.b) =>
          (~isAuthenticated /\ user = None /\ ~stored /\ ~isCheckingAuth /\ showAuthModal)
    /\ (lastOp.op = "reload" /\ lastOp.k = "verify") =>
          (~isAuthenticated /\ user = None /\ ~stored /\ ~isCheckingAuth /\ showAuthModal)

C11_Witness ==
    /\ lastOp.op = "verifyDone" /\ lastOp.st = "ok" /\ ~lastOp.b
    /\ ~stored /\ ~isAuthenticated /\ showAuthModal

\* C12: whenever the orchestrator is busy it becomes idle again, on success
\* and on failure of the chat request alike, provided the requests in flight
\* are settled.
C12_BusyEnds == isLoading ~> ~isLoading

C12_Witness ==
    /\ lastOp.op = "turnEnd" /\ lastOp.k = "chat" /\ lastOp.st # "ok"
    /\ ~isLoading /\ TurnsInFlight = 0

\* C13: when the chat request of a turn fails with a network or server
\* error, one assistant message is appended, holding the error text of the
\* server or else the generic text, with no related questions, and the staged
\* image and its preview are unchanged.
C13_FailedTurn ==
    [][\A i \in 1..Len(reqs) :
          (/\ reqs[i].k = "chat" /\ reqs[i].st \in {"sent", "err"}
           /\ reqs' = RemoveAt(reqs, i)
           /\ lastOp'.op = "turnEnd" /\ lastOp'.k = "chat" /\ lastOp'.st = reqs[i].st)
          => /\ messages' = Append(messages,
                                   Msg("assistant",
                                       IF reqs[i].st = "err" /\ reqs[i].flag
                                         THEN ServerError ELSE GenericError,
                                       FALSE))
             /\ selectedImage' = selectedImage
             /\ imagePreview' = imagePreview
      ]_vars

C13_Witness ==
    /\ lastOp.op = "turnEnd" /\ lastOp.k = "chat" /\ lastOp.st = "err"
    /\ lastOp.n # None /\ selectedImage = lastOp.n /\ imagePreview = lastOp.n
    /\ messages[Len(messages)] = Msg("assistant", ServerError, FALSE)

\* C14: a failed creation leaves no active conversation and an empty message
\* list, and the active id is never one the backend has not handed out.
C14_CreateFailure ==
    /\ (lastOp.op = "createDone" /\ ~lastOp.b) =>
          (currentConversationId = None /\ messages = <<>>)
    /\ (lastOp.op = "reload" /\ lastOp.k = "create") =>
          (currentConversationId = None /\ messages = <<>>)
    /\ (lastOp.op = "createDone" /\ lastOp.b) =>
          (currentConversationId = lastOp.id /\ lastOp.id \in 1..srvUsed)
    /\ currentConversationId \in {None} \cup (1..srvUsed)

C14_Witness ==
    /\ lastOp.op = "createDone" /\ ~lastOp.b
    /\ lastOp.cap # None /\ lastOp.n > 0
    /\ currentConversationId = None /\ messages = <<>>

\* C15: a successful select of id replaces the message list by the history
\* of id and makes id the active conversation; a select that fails with a
\* network or server error leaves the active id and the message list as they
\* were and shows an alert.
C15_SelectFrame ==
    [][\A i \in 1..Len(reqs) :
          (/\ reqs[i].k = "select" /\ reqs[i].st \in {"sent", "ok", "err"}
           /\ reqs' = RemoveAt(reqs, i)
           /\ lastOp'.op = "selectDone" /\ lastOp'.id = reqs[i].id
           /\ lastOp'.st = reqs[i].st)
          => IF reqs[i].st = "ok"
               THEN /\ Len(messages') = Len(History(reqs[i].id))
                    /\ \A j \in 1..Len(messages') :
                          /\ messages'[j].role = History(reqs[i].id)[j].role
                          /\ messages'[j].content = History(reqs[i].id)[j].content
                    /\ currentConversationId' = reqs[i].id
                    /\ ~lastOp'.alert
               ELSE /\ messages' = messages
                    /\ currentConversationId' = currentConversationId
                    /\ lastOp'.alert
      ]_vars

C15_Witness ==
    /\ lastOp.op = "selectDone" /\ ~lastOp.b /\ lastOp.alert
    /\ messages # <<>>
    /\ currentConversationId # None /\ currentConversationId # lastOp.id

\* the system messages of the list that announce an upload, those that
\* report the result of one, and the upload requests in flight
UploadsAnnounced ==
    Cardinality({j \in 1..Len(messages) :
                    messages[j].role = "system" /\ messages[j].content = Uploading})
UploadsReported ==
    Cardinality({j \in 1..Len(messages) :
                    messages[j].role = "system" /\ messages[j].content # Uploading})
UploadsInFlight == Cardinality({i \in 1..Len(reqs) : reqs[i].k = "upload"})

\* C16: an upload appends the system message "Uploading <name>..." when it
\* starts and one more system message, the success message of the server or an
\* error string, when its request has succeeded or failed with a network or
\* server error; it is accepted whatever the turn state, leaves the turn state
\* alone and does not block a submit.
C16_UploadMessages ==
    /\ [](UploadsAnnounced = UploadsReported + UploadsInFlight)
    /\ []((MainView /\ CanIssue /\ Len(messages) < MaxMsgs) => ENABLED Upload)
    /\ []((MainView /\ CanIssue /\ Len(messages) < MaxMsgs /\ UploadsInFlight > 0
            /\ SubmitAccepted(Trim(input))) => ENABLED Submit(0))
    /\ [][/\ (lastOp'.op = "upload" /\ Len(reqs') = Len(reqs) + 1) =>
               /\ reqs'[Len(reqs')].k = "upload"
               /\ messages' = Append(messages, Msg("system", Uploading, FALSE))
               /\ isLoading' = isLoading
               /\ TurnsInFlight' = TurnsInFlight
          /\ \A i \in 1..Len(reqs) :
               (/\ reqs[i].k = "upload" /\ reqs' = RemoveAt(reqs, i)
                /\ lastOp'.op = "uploadDone" /\ lastOp'.st = reqs[i].st)
               => /\ Len(messages') = Len(messages) + 1
                  /\ SubSeq(messages', 1, Len(messages)) = messages
                  /\ messages'[Len(messages')].role = "system"
                  /\ messages'[Len(messages')].content =
                        (IF reqs[i].st = "ok" THEN UploadOk
                         ELSE IF reqs[i].st = "err" /\ reqs[i].flag THEN ServerError
                         ELSE UploadFailed)
                  /\ isLoading' = isLoading
                  /\ TurnsInFlight' = TurnsInFlight
         ]_vars

C16_Witness ==
    /\ lastOp.op = "uploadDone" /\ ~lastOp.b
    /\ isLoading /\ TurnsInFlight = 1
    /\ UploadsAnnounced = 1 /\ UploadsReported = 1
    /\ messages[Len(messages)] = Msg("system", UploadFailed, FALSE)

\* C17: a successful transcription appends its text to the input as it is
\* when the response arrives, after one blank if that input is not empty; a
\* transcription that fails with a network or server error leaves the input
\* alone and shows an alert.
C17_TranscriptionAppended ==
    [][\A i \in 1..Len(reqs) :
          (/\ reqs[i].k = "transcribe" /\ reqs[i].st \in {"sent", "ok", "err"}
           /\ reqs' = RemoveAt(reqs, i)
           /\ lastOp'.op = "transcribeDone" /\ lastOp'.st = reqs[i].st)
          => IF reqs[i].st = "ok"
               THEN /\ input' = (IF input = <<>> THEN Transcription
                                 ELSE input \o <<Blank>> \o Transcription)
                    /\ ~lastOp'.alert
               ELSE /\ input' = input
                    /\ lastOp'.alert
      ]_vars

C17_Witness ==
    /\ lastOp.op = "transcribeDone" /\ lastOp.b
    /\ input = <<"a", Blank>> \o Transcription

\* the login requests in flight, and those of them handleRegister issued
LoginsInFlight == Cardinality({i \in 1..Len(reqs) : reqs[i].k = "login"})
AutoLoginsInFlight ==
    Cardinality({i \in 1..Len(reqs) : reqs[i].k = "login" /\ reqs[i].cont = "register"})

\* C18: the response of a registration request changes neither the
\* authentication state nor the stored session; after a successful
\* registration one login request with the same credentials is issued, after
\* a failed one none; the state becomes Authenticated, and a session is stored,
\* only when a login request (or the startup verification) has succeeded.
C18_RegisterThenLogin ==
    [][/\ \A i \in 1..Len(reqs) :
             (/\ reqs[i].k = "register"
              /\ lastOp'.op = "registerDone" /\ lastOp'.st = reqs[i].st
              /\ lastOp'.n = reqs[i].cred
              /\ (Len(reqs') < Len(reqs) \/ reqs'[i].k # "register"))
             => /\ UNCHANGED authVars
                /\ IF reqs[i].st = "ok"
                     THEN /\ LoginsInFlight' = LoginsInFlight + 1
                          /\ Len(reqs') = Len(reqs)
                          /\ \E j \in 1..Len(reqs') :
                                /\ reqs'[j].k = "login" /\ reqs'[j].st = "sent"
                                /\ reqs'[j].cred = reqs[i].cred
                                /\ reqs'[j].cont = "register"
                     ELSE /\ LoginsInFlight' = LoginsInFlight
                          /\ Len(reqs') = Len(reqs) - 1
       /\ (AutoLoginsInFlight' > AutoLoginsInFlight) =>
             (lastOp'.op = "registerDone" /\ lastOp'.b)
       /\ (~isAuthenticated /\ isAuthenticated') =>
             (lastOp'.op \in {"loginDone", "verifyDone"} /\ lastOp'.st = "ok" /\ lastOp'.b)
       /\ (~stored /\ stored') => (lastOp'.op = "loginDone" /\ lastOp'.st = "ok")
      ]_vars

C18_Witness ==
    /\ lastOp.op = "loginDone" /\ lastOp.b /\ lastOp.cap = 1 /\ lastOp.n = 2
    /\ isAuthenticated /\ stored

\* C19: a staged image is unstaged only by a user discard, by the page being
\* reset, or by the successful completion of a turn whose request carried it:
\* the completion of a turn leaves alone a staged image its request did not
\* carry.
C19_ImageKept ==
    [][(selectedImage # None /\ selectedImage' # selectedImage) =>
          \/ lastOp'.op \in {"ui", "reload"}
          \/ \E i \in 1..Len(reqs) :
                /\ reqs[i].k = "chat" /\ reqs[i].st = "ok"
                /\ reqs[i].img = selectedImage
                /\ lastOp'.op \in {"adopt", "turnEnd"} /\ lastOp'.k = "chat"
      ]_vars

\* C20: the request of an accepted submit goes to the vision endpoint, with
\* the question and the image, exactly when an image is staged at the submit,
\* and to the text endpoint otherwise; it carries the conversation id exactly
\* when a conversation is active at the submit, and then that id.
C20_RequestBuilt ==
    [][(lastOp'.op = "submit" /\ Len(reqs') = Len(reqs) + 1) =>
          LET r == reqs'[Len(reqs')] IN
          /\ r.k = "chat" /\ r.st = "sent"
          /\ r.img = selectedImage
          /\ lastOp'.k = (IF selectedImage = None THEN "chat" ELSE "chat_vision")
          /\ r.id = currentConversationId
          /\ r.q = messages'[Len(messages')].content
      ]_vars

C20_Witness ==
    /\ lastOp.op = "submit" /\ lastOp.k = "chat_vision" /\ lastOp.id # None
    /\ reqs # <<>>
    /\ reqs[Len(reqs)].k = "chat" /\ reqs[Len(reqs)].st = "sent"
    /\ reqs[Len(reqs)].img = selectedImage /\ selectedImage # None
    /\ reqs[Len(reqs)].id = currentConversationId /\ currentConversationId # None

\* C21: in every reachable state playback is active exactly when a message is
\* marked as speaking (isSpeaking = (speakingMessageId # null)), so at most one
\* message is marked at a time, whatever the interleaving of toggles, of the
\* end of the utterance being spoken and of the late end signals of cancelled
\* utterances.
C21_PlaybackState == isSpeaking = (speakingMessageId # None)

\* the late end signal of a cancelled utterance has cleared the mark while
\* another utterance is being spoken
C21_Witness ==
    /\ lastOp.op = "onend"
    /\ lastOp.b
    /\ lastOp.n # None
    /\ synthCur # None
    /\ ~isSpeaking
    /\ speakingMessageId = None

\* C22: the completion of a turn that was submitted with no active
\* conversation adopts the conversation id of the response only if no
\* conversation is active when it completes: it never overwrites an active id
\* that a create or a select has set while the turn was in flight.
C22_AdoptsWhenNone ==
    [][\A i \in 1..Len(reqs) :
          (/\ reqs[i].k = "chat" /\ reqs[i].id = None
           /\ Len(reqs') = Len(reqs) /\ reqs'[i].k = "list"
           /\ currentConversationId' = reqs[i].rid)
          => currentConversationId = None
      ]_vars

\* C23: in every state in which the page is unauthenticated after a logout,
\* the message list is empty, the conversation list is empty and no
\* conversation is active, also after the late completion of the requests
\* (chat turn, document upload, select, create, registry refresh) that were in
\* flight when the logout ran. A loaded page leaves the authenticated state
\* by a logout only.
C23_LoggedOutIsEmpty ==
    (~isAuthenticated /\ ~isCheckingAuth) =>
        (messages = <<>> /\ conversations = {} /\ currentConversationId = None)

\* C24: whenever the playback state is Speaking(i), i is the index of an
\* assistant message of the current message list, the one the read-aloud
\* button of which started the playback; this also holds after a select, a
\* create, a delete of the active conversation or a logout has replaced or
\* cleared the message list. The formula states the first half, which the
\* second half needs: the marked index denotes an assistant message.
C24_SpeakingMessageShown ==
    isSpeaking => ShowsSpeech(speakingMessageId)

\* C25: when several refreshes of the registry are in flight at once, the
\* conversation list that is stored after all of them have completed is the
\* result of the refresh issued last: the response of an older refresh never
\* overwrites the result of a newer one. With chat turns and selections only,
\* a refresh no handler awaits is the one the page issued on becoming
\* authenticated, which is older than the refresh of any adoption: once the
\* refresh of an adoption has stored its result, the response of the older
\* one leaves the list as it is.
C25_NewestRefreshKept ==
    [][\A i \in 1..Len(reqs) :
          (/\ lastOp.op = "turnEnd" /\ lastOp.k = "list" /\ lastOp.st = "ok"
           /\ reqs[i].k = "list" /\ reqs[i].cont = "none" /\ reqs[i].st = "ok"
           /\ reqs' = RemoveAt(reqs, i)
           /\ lastOp'.op = "listDone")
          => conversations' = conversations
      ]_vars
====
